---------------------------- MODULE Spec2Model ----------------------------
(***************************************************************************)
(* Model of the XBRL metric extraction and trading-calendar alignment of   *)
(* EDA_EDGAR_XBRL.py (next_trading_day, shift_to_market_open,              *)
(* extract_metrics, extract_metrics_from_EDGAR_XBRL), of the parser        *)
(* Parse_EDGAR_XBRL.py, of the grouping of EDA_EDGAR_XBRL_METRICS.py, of   *)
(* the fetch scripts Fetch_EDGAR.py and Fetch_EDGAR_XBRL.py and of         *)
(* generate_months of Fetch_OHLCV.py.                                      *)
(*                                                                         *)
(* Five specifications share the module's variables:                       *)
(*   SpecFetch     draws the inputs of rate_limited_api_calls, main and    *)
(*                 get_EDGAR_XBRL, the SEC's answers and the requests      *)
(*                 that fail, and runs the call (get_EDGAR_XBRL followed   *)
(*                 by the parser on the file it wrote);                    *)
(*   SpecMonths    draws a year and runs generate_months step by step;     *)
(*   SpecPipeline  draws the cached JSON file and the diagnostic flags     *)
(*                 and runs the parser, the composition and the grouping;  *)
(*   SpecCalendar  draws a calendar date and runs next_trading_day (step   *)
(*                 by step through its while loop) and                     *)
(*                 shift_to_market_open on it;                             *)
(*   Spec          draws xbrl_data, metrics_list and the diagnostic flag   *)
(*                 print_metrics and calls extract_metrics twice.          *)
(*                                                                         *)
(* Python values are modelled as follows.  A str is a sequence of tokens   *)
(* (single characters for the `filed` strings, which are parsed); a dict   *)
(* with literal keys is a function whose domain is its key set; an         *)
(* insertion-ordered dict is a sequence of [key, value] entries; every     *)
(* value stored in a fact is a record tagged with its Python type.         *)
(***************************************************************************)
EXTENDS Integers, Sequences, FiniteSets, TLC

VARIABLES
    cal_input,              \* the date handed to the calendar functions
    date,                   \* next_trading_day: its local variable `date`
    ntd_pc,                 \* next_trading_day: "idle", "loop", "returned"
    ntd_iters,              \* next_trading_day: executions of the loop body
    smo_pc,                 \* shift_to_market_open: "idle", "returned"
    market_open_datetime,   \* shift_to_market_open: the value returned
    xbrl_data,              \* extract_metrics: argument xbrl_data
    metrics_list,           \* extract_metrics: argument metrics_list
    print_metrics,          \* module-level diagnostic flag
    metrics_data,           \* the list object extract_metrics built last
    outcomes,               \* one entry per finished call: returned / raised
    xbrl_data_before,       \* xbrl_data as it was before the last call
    metrics_list_before,    \* metrics_list as it was before the last call
    json_file,              \* the ticker's cached {ticker}_EDGAR_XBRL_JSON.json
    print_gaap_keys,        \* module-level diagnostic flag
    all_dict,               \* outcome of a call of parse_EDGAR_XBRL_all
    pipeline_data,          \* outcome of extract_metrics_from_EDGAR_XBRL
    content_dfs,            \* EDA_EDGAR_XBRL_METRICS: its dict content_dfs
    namespace_result,       \* outcome of a call of parse_namespace
    script,                 \* the fetch entry point that is run
    api_response,           \* get_EDGAR_XBRL: what the SEC API answers
    urls,                   \* rate_limited_api_calls: argument urls
    requests_per_second,    \* the rate handed to the fetch entry point
    failing,                \* the URLs whose request fails
    recent,                 \* Fetch_EDGAR: filings["recent"] of the API answer
    form_filings,           \* Fetch_EDGAR.main: its local form_filings
    fetch_index,            \* position of the running for loop
    fetch_pc,               \* "start", "loop", "fetched", "done"
    events,                 \* requests, sleeps and file writes so far
    start_year,             \* generate_months: argument start_year
    current_date,           \* generate_months: its local current_date
    months,                 \* generate_months: its local months
    gm_pc                   \* generate_months: "idle", "start", "loop", "returned", "raised"

calvars == <<cal_input, date, ntd_pc, ntd_iters, smo_pc, market_open_datetime>>
exvars  == <<xbrl_data, metrics_list, print_metrics, metrics_data, outcomes,
             xbrl_data_before, metrics_list_before>>
pipevars == <<json_file, print_gaap_keys, all_dict, pipeline_data, content_dfs,
              namespace_result>>
fetchvars == <<script, api_response, urls, requests_per_second, failing, recent,
               form_filings, fetch_index, fetch_pc, events>>
monthvars == <<start_year, current_date, months, gm_pc>>
vars    == <<calvars, exvars, pipevars, fetchvars, monthvars>>

---------------------------------------------------------------------------
(* Python values.                                                          *)

PyStr(tokens) == [type |-> "str", value |-> tokens]
PyInt(n)      == [type |-> "int", value |-> n]
PyNone        == [type |-> "NoneType"]

\* d[k] = v on a dict d: inserts or overwrites key k.
DictSet(d, k, v) == [x \in (DOMAIN d) \cup {k} |-> IF x = k THEN v ELSE d[x]]

---------------------------------------------------------------------------
(* datetime.date arithmetic (proleptic Gregorian calendar).                *)

Date(y, m, d) == [year |-> y, month |-> m, day |-> d]

IsLeap(y) == y % 4 = 0 /\ (y % 100 # 0 \/ y % 400 = 0)

DaysInMonth(y, m) ==
    IF m = 2 THEN (IF IsLeap(y) THEN 29 ELSE 28)
    ELSE IF m \in {4, 6, 9, 11} THEN 30 ELSE 31

DaysBeforeYear(y) ==
    LET p == y - 1 IN p * 365 + (p \div 4) - (p \div 100) + (p \div 400)

RECURSIVE DaysBeforeMonth(_, _)
DaysBeforeMonth(y, m) ==
    IF m = 1 THEN 0 ELSE DaysBeforeMonth(y, m - 1) + DaysInMonth(y, m - 1)

\* date.toordinal(): 0001-01-01 is day 1.
ToOrdinal(dt) == DaysBeforeYear(dt.year) + DaysBeforeMonth(dt.year, dt.month) + dt.day

\* date.weekday(): Monday is 0, Sunday is 6.
Weekday(dt) == (ToOrdinal(dt) + 6) % 7

NextDay(dt) ==
    IF dt.day < DaysInMonth(dt.year, dt.month) THEN [dt EXCEPT !.day = dt.day + 1]
    ELSE IF dt.month < 12 THEN [dt EXCEPT !.month = dt.month + 1, !.day = 1]
    ELSE [dt EXCEPT !.year = dt.year + 1, !.month = 1, !.day = 1]

\* dt + timedelta(days=n), n >= 0; every field other than year, month and
\* day (the time of a datetime) is kept.
RECURSIVE AddDays(_, _)
AddDays(dt, n) ==
    IF n = 0 THEN dt ELSE AddDays(CHOOSE next \in {NextDay(dt)} : TRUE, n - 1)

DatePart(dt) == Date(dt.year, dt.month, dt.day)

---------------------------------------------------------------------------
(* next_trading_day(date)                                                  *)

NTD_FirstStep_TwoDays(dt) == AddDays(dt, 2)
\* date += timedelta(days=1)
NTD_FirstStep(dt) == AddDays(dt, 1)

NTD_LoopCond_SundayOnly(dt) == Weekday(dt) > 5
NTD_LoopCond_FromFriday(dt) == Weekday(dt) >= 4
\* while date.weekday() >= 5
NTD_LoopCond(dt) == Weekday(dt) >= 5

NTD_LoopStep_TwoDays(dt) == AddDays(dt, 2)
\* the loop body: date += timedelta(days=1)
NTD_LoopStep(dt) == AddDays(dt, 1)

RECURSIVE NTD_Loop(_)
NTD_Loop(dt) == IF NTD_LoopCond(dt) THEN NTD_Loop(NTD_LoopStep(dt)) ELSE dt

\* the function as a whole
next_trading_day(dt) == NTD_Loop(NTD_FirstStep(dt))

---------------------------------------------------------------------------
(* shift_to_market_open(filing_date)                                       *)

MarketOpenHour   == 9
MarketOpenMinute == 30

\* datetime.combine(filing_date, time(9, 30))
Combine(dt, h, mi) ==
    [type |-> "datetime", year |-> dt.year, month |-> dt.month, day |-> dt.day,
     hour |-> h, minute |-> mi]

SMO_IsWeekend_FromFriday(dt) == Weekday(dt) >= 4
SMO_IsWeekend_SaturdayOnly(dt) == Weekday(dt) = 5
\* if market_open_datetime.weekday() >= 5
SMO_IsWeekend(dt) == Weekday(dt) >= 5

SMO_WeekendShift_SixMinus(dt) == AddDays(dt, 6 - Weekday(dt))
\* market_open_datetime + timedelta(days=7 - market_open_datetime.weekday())
SMO_WeekendShift(dt) == AddDays(dt, 7 - Weekday(dt))

shift_to_market_open(filing_date) ==
    LET combined == Combine(filing_date, MarketOpenHour, MarketOpenMinute)
    IN  IF SMO_IsWeekend(combined) THEN SMO_WeekendShift(combined) ELSE combined

---------------------------------------------------------------------------
(* The dates the calendar specification draws: two windows, one across a   *)
(* year boundary and one across the leap day of 2024.                      *)

MaxDateOffset == 20

WindowStarts == {Date(2023, 12, 20), Date(2024, 2, 15)}

CalendarDates == {AddDays(s, k) : s \in WindowStarts, k \in 0..MaxDateOffset}

IdleDate == Date(2024, 2, 2)

CalIdle ==
    /\ date = IdleDate
    /\ ntd_pc = "idle"
    /\ ntd_iters = 0
    /\ smo_pc = "idle"
    /\ market_open_datetime = PyNone

ExIdle ==
    /\ xbrl_data = <<>>
    /\ metrics_list = <<>>
    /\ print_metrics = FALSE
    /\ metrics_data = <<>>
    /\ outcomes = <<>>
    /\ xbrl_data_before = <<>>
    /\ metrics_list_before = <<>>

\* an operation that has not been called yet
Idle == [status |-> "idle", value |-> <<>>]

PipeIdle ==
    /\ json_file = [kind |-> "missing"]
    /\ print_gaap_keys = FALSE
    /\ all_dict = Idle
    /\ pipeline_data = Idle
    /\ content_dfs = Idle
    /\ namespace_result = Idle

FetchIdle ==
    /\ script = "none"
    /\ api_response = [facts |-> <<>>]
    /\ urls = <<>>
    /\ requests_per_second = 1
    /\ failing = {}
    /\ recent = <<>>
    /\ form_filings = <<>>
    /\ fetch_index = 1
    /\ fetch_pc = "done"
    /\ events = <<>>

MonthsIdle ==
    /\ start_year = 2024
    /\ current_date = IdleDate
    /\ months = <<>>
    /\ gm_pc = "idle"

InitCalendar ==
    /\ cal_input \in CalendarDates
    /\ CalIdle
    /\ ExIdle
    /\ PipeIdle
    /\ FetchIdle
    /\ MonthsIdle

\* next_trading_day, line 87
NTD_Enter ==
    /\ ntd_pc = "idle"
    /\ date' = NTD_FirstStep(cal_input)
    /\ ntd_pc' = "loop"
    /\ UNCHANGED <<cal_input, ntd_iters, smo_pc, market_open_datetime, exvars, pipevars, fetchvars, monthvars>>

\* next_trading_day, lines 88-89: one execution of the loop body
NTD_Body ==
    /\ ntd_pc = "loop"
    /\ NTD_LoopCond(date)
    /\ date' = NTD_LoopStep(date)
    /\ ntd_iters' = ntd_iters + 1
    /\ UNCHANGED <<cal_input, ntd_pc, smo_pc, market_open_datetime, exvars, pipevars, fetchvars, monthvars>>

\* next_trading_day, line 90
NTD_Return ==
    /\ ntd_pc = "loop"
    /\ ~NTD_LoopCond(date)
    /\ ntd_pc' = "returned"
    /\ UNCHANGED <<cal_input, date, ntd_iters, smo_pc, market_open_datetime, exvars, pipevars, fetchvars, monthvars>>

\* shift_to_market_open, lines 92-110
SMO_Call ==
    /\ smo_pc = "idle"
    /\ market_open_datetime' = shift_to_market_open(cal_input)
    /\ smo_pc' = "returned"
    /\ UNCHANGED <<cal_input, date, ntd_pc, ntd_iters, exvars, pipevars, fetchvars, monthvars>>

NextCalendar == NTD_Enter \/ NTD_Body \/ NTD_Return \/ SMO_Call

SpecCalendar == InitCalendar /\ [][NextCalendar]_vars

---------------------------------------------------------------------------
(* datetime.strptime(value, '%Y-%m-%d').date()                             *)
(*                                                                         *)
(* The format compiles to the regular expression                           *)
(*   (\d\d\d\d)-(1[0-2]|0[1-9]|[1-9])-(3[01]|[12]\d|0[1-9]|[1-9]| [1-9])   *)
(* which must match at the start of the string and leave nothing over;     *)
(* the fields must then name a date of the calendar.  A string that fails  *)
(* raises ValueError, an argument that is no str raises TypeError.         *)

DigitChars   == <<"0", "1", "2", "3", "4", "5", "6", "7", "8", "9">>
Digits       == {DigitChars[n] : n \in 1..10}
NonZeroDigits == Digits \ {"0"}
DigitValue(c) == (CHOOSE n \in 1..10 : DigitChars[n] = c) - 1

\* the i-th character, "" past the end
Tok(s, i) == IF i \in 1..Len(s) THEN s[i] ELSE ""

\* int() of the characters s[from .. from+len-1]; a leading blank is skipped
RECURSIVE Number(_, _, _)
Number(s, from, len) ==
    IF len = 0 THEN 0
    ELSE IF s[from + len - 1] = " " THEN 0
    ELSE 10 * Number(s, from, len - 1) + DigitValue(s[from + len - 1])

YearLen(s) == IF \A i \in 1..4 : Tok(s, i) \in Digits THEN 4 ELSE 0

\* characters the month group takes at position p (0: no match); the group
\* must be followed by "-"
MonthLen(s, p) ==
    IF Tok(s, p) = "1" /\ Tok(s, p + 1) \in {"0", "1", "2"} /\ Tok(s, p + 2) = "-" THEN 2
    ELSE IF Tok(s, p) = "0" /\ Tok(s, p + 1) \in NonZeroDigits /\ Tok(s, p + 2) = "-" THEN 2
    ELSE IF Tok(s, p) \in NonZeroDigits /\ Tok(s, p + 1) = "-" THEN 1
    ELSE 0

\* characters the day group takes at position p (0: no match): the first
\* alternative that matches, in the order of the expression
DayLen(s, p) ==
    IF Tok(s, p) = "3" /\ Tok(s, p + 1) \in {"0", "1"} THEN 2
    ELSE IF Tok(s, p) \in {"1", "2"} /\ Tok(s, p + 1) \in Digits THEN 2
    ELSE IF Tok(s, p) = "0" /\ Tok(s, p + 1) \in NonZeroDigits THEN 2
    ELSE IF Tok(s, p) \in NonZeroDigits THEN 1
    ELSE IF Tok(s, p) = " " /\ Tok(s, p + 1) \in NonZeroDigits THEN 2
    ELSE 0

StrptimeOk(dt)  == [outcome |-> "ok", date |-> dt]
StrptimeError(e) == [outcome |-> e, date |-> PyNone]

strptime(value) ==
    IF value.type # "str" THEN StrptimeError("TypeError")
    ELSE
      LET s    == value.value
          mlen == MonthLen(s, 6)
          dpos == 6 + mlen + 1
          dlen == DayLen(s, dpos)
      IN  IF YearLen(s) = 0 \/ Tok(s, 5) # "-" \/ mlen = 0 \/ dlen = 0
            THEN StrptimeError("ValueError")        \* does not match format
          ELSE IF dpos + dlen - 1 # Len(s)
            THEN StrptimeError("ValueError")        \* unconverted data remains
          ELSE
            LET y == Number(s, 1, 4)
                m == Number(s, 6, mlen)
                d == Number(s, dpos, dlen)
            IN  IF y < 1 \/ d > DaysInMonth(y, m)
                  THEN StrptimeError("ValueError")  \* no such date
                ELSE StrptimeOk(Date(y, m, d))

---------------------------------------------------------------------------
(* extract_metrics(xbrl_data, metrics_list)                                *)
(*                                                                         *)
(* xbrl_data is a sequence of entries [key |-> namespace, value |-> m],    *)
(* in the dict's insertion order, m a function from metric keys to fact    *)
(* lists.  The call is computed on a record                                *)
(*   [xbrl, metrics_data, raised]                                          *)
(* holding the argument object as the statements executed so far leave     *)
(* it, the list built so far and the exception that ended the call         *)
(* ("none" while it runs).  Every element of metrics_data pairs the row    *)
(* with its origin <<i, j, k>>: the positions of the metric, the namespace *)
(* and the fact the loops stood at when the row was appended (k = 0 for a  *)
(* row appended outside the fact loop).                                    *)

InitialMetricsData_Stale == metrics_data
\* metrics_data = []
InitialMetricsData == <<>>

AppendRow_Front(md, item) == <<item>> \o md
\* metrics_data.append(row)
AppendRow(md, item) == Append(md, item)

AugmentedRow(namespace_data, market_day, namespace, metric) ==
    DictSet(DictSet(DictSet(namespace_data,
        "market_day", market_day),
        "namespace", PyStr(namespace)),
        "content", PyStr(metric))

BuildRow_Alias(namespace_data, market_day, namespace, metric) ==
    [row    |-> AugmentedRow(namespace_data, market_day, namespace, metric),
     source |-> AugmentedRow(namespace_data, market_day, namespace, metric)]
\* row = dict(namespace_data); row['market_day'] = ...; row['namespace'] = ...;
\* row['content'] = ...   `source` is the fact object after these statements.
BuildRow(namespace_data, market_day, namespace, metric) ==
    [row    |-> AugmentedRow(namespace_data, market_day, namespace, metric),
     source |-> namespace_data]

\* row = dict(); row['content'] = metric
DiagnosticRow(metric) == ("content" :> PyStr(metric))

\* the fact loop's body with the market day taken from next_trading_day
ProcessFact_NextTradingDay(st, metric, i, j, k) ==
    LET namespace      == st.xbrl[j].key
        namespace_data == st.xbrl[j].value[metric][k]
    IN  IF "filed" \in DOMAIN namespace_data
          THEN LET parsed == strptime(namespace_data["filed"])
               IN  IF parsed.outcome = "ok"
                     THEN LET built == BuildRow(namespace_data,
                                           Combine(next_trading_day(parsed.date),
                                                   MarketOpenHour, MarketOpenMinute),
                                           namespace, metric)
                          IN  [st EXCEPT
                                 !.xbrl[j].value[metric][k] = built.source,
                                 !.metrics_data =
                                     AppendRow(@, [row |-> built.row,
                                                   origin |-> <<i, j, k>>])]
                   ELSE IF parsed.outcome = "ValueError"
                     THEN st
                   ELSE [st EXCEPT !.raised = parsed.outcome]
          ELSE st

\* the body of the fact loop for fact k of metric i in namespace j
ProcessFact(st, metric, i, j, k) ==
    LET namespace      == st.xbrl[j].key
        namespace_data == st.xbrl[j].value[metric][k]
    IN  IF "filed" \in DOMAIN namespace_data
          THEN LET parsed == strptime(namespace_data["filed"])
               IN  IF parsed.outcome = "ok"
                     THEN LET built == BuildRow(namespace_data,
                                                shift_to_market_open(parsed.date),
                                                namespace, metric)
                          IN  [st EXCEPT
                                 !.xbrl[j].value[metric][k] = built.source,
                                 !.metrics_data =
                                     AppendRow(@, [row |-> built.row,
                                                   origin |-> <<i, j, k>>])]
                   ELSE IF parsed.outcome = "ValueError"
                     THEN st                        \* except ValueError: print
                   ELSE [st EXCEPT !.raised = parsed.outcome]
          ELSE st                                   \* print "Item missing 'filed'"

RECURSIVE FactLoop(_, _, _, _, _)
FactLoop(st, metric, i, j, k) ==
    IF st.raised # "none" \/ k > Len(st.xbrl[j].value[metric]) THEN st
    ELSE FactLoop(ProcessFact(st, metric, i, j, k), metric, i, j, k + 1)

\* the body of the namespace loop
ProcessNamespace(st, metric, i, j, flag) ==
    IF metric \in DOMAIN st.xbrl[j].value
      THEN FactLoop(st, metric, i, j, 1)
    ELSE IF flag
      THEN [st EXCEPT !.metrics_data =
                AppendRow(@, [row |-> DiagnosticRow(metric), origin |-> <<i, j, 0>>])]
    ELSE st

RECURSIVE NamespaceLoop(_, _, _, _, _)
NamespaceLoop(st, metric, i, j, flag) ==
    IF st.raised # "none" \/ j > Len(st.xbrl) THEN st
    ELSE NamespaceLoop(ProcessNamespace(st, metric, i, j, flag), metric, i, j + 1, flag)

RECURSIVE MetricLoop(_, _, _, _)
MetricLoop(st, mlist, i, flag) ==
    IF st.raised # "none" \/ i > Len(mlist) THEN st
    ELSE MetricLoop(NamespaceLoop(st, mlist[i], i, 1, flag), mlist, i + 1, flag)

extract_metrics(data, mlist, flag) ==
    MetricLoop([xbrl |-> data, metrics_data |-> InitialMetricsData, raised |-> "none"],
               mlist, 1, flag)

---------------------------------------------------------------------------
(* The inputs the extraction specification draws.                          *)

MaxFacts == 2     \* facts in a whole xbrl_data

UsGaap == <<"us-gaap">>
Dei    == <<"dei">>
NetIncomeLoss == <<"us-gaap", "_", "NetIncomeLoss", "_", "USD">>
SharesOutstanding == <<"dei", "_", "EntityCommonStockSharesOutstanding", "_", "shares">>

Namespaces == {UsGaap, Dei}
MetricKeys == {NetIncomeLoss, SharesOutstanding}
NamespaceOrders == {<<UsGaap, Dei>>, <<Dei, UsGaap>>}

Filed_2024_02_02 == PyStr(<<"2", "0", "2", "4", "-", "0", "2", "-", "0", "2">>)  \* a Friday
Filed_2024_02_03 == PyStr(<<"2", "0", "2", "4", "-", "0", "2", "-", "0", "3">>)  \* a Saturday
Filed_NotADate   == PyStr(<<"n", "o", "t", "-", "a", "-", "d", "a", "t", "e">>)

FactFriday    == [val |-> PyInt(100), filed |-> Filed_2024_02_02, form |-> PyStr(<<"10-K">>)]
\* a fact that has a key of its own named like one the extraction adds
FactSaturday  == [val |-> PyInt(100), filed |-> Filed_2024_02_03,
                  content |-> PyStr(<<"text">>)]
FactNotADate  == [val |-> PyInt(7), filed |-> Filed_NotADate]
FactNoFiled   == [val |-> PyInt(7), form |-> PyStr(<<"10-Q">>)]
FactNullFiled == [val |-> PyInt(7), filed |-> PyNone]

FactKinds == {FactFriday, FactSaturday, FactNotADate, FactNoFiled, FactNullFiled}

ListsOfLen(n) == [1..n -> FactKinds]

\* the metric maps of one namespace that hold exactly t facts
MetricMapsWith(t) ==
    (IF t = 0 THEN {<<>>} ELSE {})
    \cup {(k :> l) : k \in MetricKeys, l \in ListsOfLen(t)}
    \cup UNION {{(NetIncomeLoss :> l1) @@ (SharesOutstanding :> l2) :
                    l1 \in ListsOfLen(t1), l2 \in ListsOfLen(t - t1)} : t1 \in 0..t}

Entry(ns, m) == [key |-> ns, value |-> m]

\* xbrl_data is one of: no namespace, one namespace, two namespaces in either
\* order; it holds at most MaxFacts facts
IsXbrlInput(data) ==
    \/ data = <<>>
    \/ \E ns \in Namespaces, t \in 0..MaxFacts :
          \E m \in MetricMapsWith(t) : data = <<Entry(ns, m)>>
    \/ \E o \in NamespaceOrders, t \in 0..MaxFacts :
          \E u \in 0..(MaxFacts - t) :
             \E m1 \in MetricMapsWith(t), m2 \in MetricMapsWith(u) :
                data = <<Entry(o[1], m1), Entry(o[2], m2)>>

\* metrics_list: empty, one key, two keys, the same key twice
MetricsLists == {<<>>, <<NetIncomeLoss>>, <<NetIncomeLoss, SharesOutstanding>>,
                 <<NetIncomeLoss, NetIncomeLoss>>}

---------------------------------------------------------------------------
(* The extraction specification: extract_metrics is called twice on the    *)
(* same argument objects.                                                  *)

Init ==
    /\ IsXbrlInput(xbrl_data)
    /\ metrics_list \in MetricsLists
    /\ print_metrics \in BOOLEAN
    /\ metrics_data = <<>>
    /\ outcomes = <<>>
    /\ xbrl_data_before = xbrl_data
    /\ metrics_list_before = metrics_list
    /\ cal_input = IdleDate
    /\ CalIdle
    /\ PipeIdle
    /\ FetchIdle
    /\ MonthsIdle

\* one call of extract_metrics, lines 112-166
ExtractMetricsCall ==
    /\ Len(outcomes) < 2
    /\ \E st \in {extract_metrics(xbrl_data, metrics_list, print_metrics)} :
           /\ xbrl_data' = st.xbrl
           /\ metrics_data' = st.metrics_data
           /\ outcomes' = Append(outcomes,
                 IF st.raised = "none"
                   THEN [status |-> "returned", value |-> st.metrics_data]
                   ELSE [status |-> st.raised, value |-> <<>>])
    /\ xbrl_data_before' = xbrl_data
    /\ metrics_list_before' = metrics_list
    /\ UNCHANGED <<metrics_list, print_metrics, calvars, pipevars, fetchvars, monthvars>>

Next == ExtractMetricsCall

Spec == Init /\ [][Next]_vars

---------------------------------------------------------------------------
(* Parse_EDGAR_XBRL.py: make_df, to_datetime, parse_namespace and          *)
(* parse_EDGAR_XBRL_all.  A call either returns a value or raises.         *)

Return(v) == [status |-> "returned", value |-> v]
Raise(e)  == [status |-> e, value |-> <<>>]

\* insertion-ordered dicts
OdKeys(od) == {od[i].key : i \in 1..Len(od)}
OdGet(od, k) == od[CHOOSE i \in 1..Len(od) : od[i].key = k].value
OdSet(od, k, v) ==
    IF k \in OdKeys(od)
      THEN [i \in 1..Len(od) |-> IF od[i].key = k THEN Entry(k, v) ELSE od[i]]
      ELSE Append(od, Entry(k, v))

\* {item['namespace']: item for item in data if 'namespace' in item}
RECURSIVE NamespaceDict(_, _, _)
NamespaceDict(df_data, items, n) ==
    IF n > Len(items) THEN df_data
    ELSE NamespaceDict(IF "namespace" \in DOMAIN items[n]
                         THEN OdSet(df_data, items[n]["namespace"], items[n])
                         ELSE df_data,
                       items, n + 1)

\* pd.DataFrame.from_dict(d, orient='index'): one row per key, one column per
\* key of any row; a row without a column's key holds NaN there
DataFrameFromDict(d) ==
    [type    |-> "DataFrame",
     rows    |-> d,
     columns |-> UNION {DOMAIN d[i].value : i \in 1..Len(d)}]

make_df(file) ==
    CASE file.kind = "missing"     -> Return(PyNone)           \* FileNotFoundError
      [] file.kind = "undecodable" -> Return(PyNone)           \* JSONDecodeError
      [] file.kind = "dict"        -> Return(DataFrameFromDict(file.items))
      [] file.kind = "list"        ->
             Return(DataFrameFromDict(NamespaceDict(<<>>, file.items, 1)))
      [] OTHER                     -> Raise("ValueError")

\* converts the `filed` of every value of dict_item that is itself a dict
to_datetime(dict_item) ==
    [k \in DOMAIN dict_item |->
        IF dict_item[k].type = "dict" /\ "filed" \in DOMAIN dict_item[k].value
          THEN [dict_item[k] EXCEPT !.value["filed"] =
                   [type |-> "Timestamp", value |-> @]]
          ELSE dict_item[k]]

\* a dict is a function from its keys; any other value is tagged with its type
IsDict(v) == "type" \notin DOMAIN v

PyList(l) == [type |-> "list", value |-> l]

\* for dict_item in data: to_datetime(dict_item); the facts seen so far,
\* or the exception: iterating a value that is not a list is a TypeError,
\* and .items() on an element that is not a dict an AttributeError
RECURSIVE ItemLoop(_, _)
ItemLoop(data, n) ==
    IF data.type # "list" THEN "TypeError"
    ELSE IF n > Len(data.value) THEN "none"
    ELSE IF ~IsDict(data.value[n]) THEN "AttributeError"
    ELSE ItemLoop(data, n + 1)

\* the loop over units.items() for one fact type
RECURSIVE UnitLoop(_, _, _, _)
UnitLoop(result_dict, key, units, u) ==
    IF u > Len(units) THEN [result |-> result_dict, exc |-> "none"]
    ELSE LET data == units[u].value
             exc  == ItemLoop(data, 1)
         IN  IF exc # "none" THEN [result |-> result_dict, exc |-> exc]
             ELSE UnitLoop(DictSet(result_dict,
                                   key \o <<"_">> \o units[u].key,
                                   [n \in 1..Len(data.value) |->
                                       to_datetime(data.value[n])]),
                           key, units, u + 1)

\* the body of the loop over facts.items(): the inner try catches
\* AttributeError only
ProcessFactType(result_dict, namespace, fact_type, fact_details) ==
    IF fact_details.type # "dict"
      THEN [result |-> result_dict, exc |-> "none"]      \* AttributeError, skipped
      ELSE LET done == UnitLoop(result_dict, namespace \o <<"_">> \o fact_type,
                                IF "units" \in DOMAIN fact_details.value
                                  THEN fact_details.value["units"] ELSE <<>>,
                                1)
           IN  IF done.exc = "AttributeError"
                 THEN [done EXCEPT !.exc = "none"]
                 ELSE done

RECURSIVE FactTypeLoop(_, _, _, _)
FactTypeLoop(result_dict, namespace, facts, f) ==
    IF f > Len(facts) THEN Return(result_dict)
    ELSE LET done == ProcessFactType(result_dict, namespace,
                                     facts[f].key, facts[f].value)
         IN  IF done.exc # "none" THEN Raise(done.exc)
             ELSE FactTypeLoop(done.result, namespace, facts, f + 1)

parse_namespace(df, namespace) ==
    IF namespace \notin OdKeys(df.rows) THEN Return(<<>>)        \* KeyError
    ELSE IF "facts" \notin df.columns THEN Return(<<>>)          \* KeyError
    ELSE LET row == OdGet(df.rows, namespace)
         IN  IF "facts" \notin DOMAIN row
               THEN Raise("AttributeError")                      \* NaN.items()
               ELSE FactTypeLoop(<<>>, namespace, row["facts"], 1)

Invest == <<"invest">>
Srt    == <<"srt">>
ParsedNamespaces == <<Dei, Invest, UsGaap, Srt>>

RECURSIVE ParseLoop(_, _, _)
ParseLoop(acc, df, n) ==
    IF n > Len(ParsedNamespaces) THEN Return(acc)
    ELSE LET parsed == parse_namespace(df, ParsedNamespaces[n])
         IN  IF parsed.status # "returned" THEN parsed
             ELSE ParseLoop(OdSet(acc, ParsedNamespaces[n], parsed.value), df, n + 1)

parse_EDGAR_XBRL_all(file) ==
    LET df == make_df(file)
    IN  IF df.status # "returned" THEN df
        ELSE IF df.value.type = "NoneType" THEN Return(<<>>)
        ELSE ParseLoop(<<>>, df.value, 1)

---------------------------------------------------------------------------
(* EDA_EDGAR_XBRL.py: the curated list and the composition.                *)

Metric(name, unit) == UsGaap \o <<"_", name, "_", unit>>

ResearchAndDevelopmentExpense == Metric("ResearchAndDevelopmentExpense", "USD")

\* lines 44-72: no comma follows the third literal, so Python concatenates it
\* with the fourth into one string
top_25_metrics ==
    << Metric("RevenueFromContractWithCustomerExcludingAssessedTax", "USD"),
       Metric("CostOfGoodsAndServicesSold", "USD"),
       Metric("ResearchAndDevelopmentExpense", "USD")
           \o Metric("NetIncomeLoss", "USD"),
       Metric("EarningsPerShareBasic", "USD/shares"),
       Metric("EarningsPerShareDiluted", "USD/shares"),
       Metric("OperatingIncomeLoss", "USD"),
       Metric("GrossProfit", "USD"),
       Metric("Assets", "USD"),
       Metric("AssetsCurrent", "USD"),
       Metric("LiabilitiesCurrent", "USD"),
       Metric("StockholdersEquity", "USD"),
       Metric("CashCashEquivalentsRestrictedCashAndRestrictedCashEquivalents", "USD"),
       Metric("CashAndCashEquivalentsAtCarryingValue", "USD"),
       Metric("CashCashEquivalentsRestrictedCashAndRestrictedCashEquivalentsPeriodIncreaseDecreaseIncludingExchangeRateEffect", "USD"),
       Metric("NetCashProvidedByUsedInOperatingActivities", "USD"),
       Metric("NetCashProvidedByUsedInInvestingActivities", "USD"),
       Metric("NetCashProvidedByUsedInFinancingActivities", "USD"),
       Metric("InterestExpense", "USD"),
       Metric("LongTermDebt", "USD"),
       Metric("DebtInstrumentCarryingAmount", "USD"),
       Metric("AllocatedShareBasedCompensationExpense", "USD"),
       Metric("ShareBasedCompensation", "USD"),
       Metric("IncomeTaxExpenseBenefit", "USD"),
       Metric("ResearchAndDevelopmentExpense", "USD"),
       Metric("SellingGeneralAndAdministrativeExpense", "USD"),
       Metric("InventoryNet", "USD") >>

\* the outcome of a call of extract_metrics
ExtractOutcome(st) ==
    IF st.raised = "none" THEN Return(st.metrics_data) ELSE Raise(st.raised)

acquire_xbrl_data(file, gaap_flag) ==
    LET dict == parse_EDGAR_XBRL_all(file)
    IN  IF dict.status # "returned" THEN dict
        ELSE IF gaap_flag /\ UsGaap \notin OdKeys(dict.value)
          THEN Raise("KeyError")                         \* dict['us-gaap']
        ELSE dict

extract_metrics_from_EDGAR_XBRL(file, gaap_flag, flag) ==
    LET acquired == acquire_xbrl_data(file, gaap_flag)
    IN  IF acquired.status # "returned" THEN acquired
        ELSE ExtractOutcome(extract_metrics(acquired.value, top_25_metrics, flag))

---------------------------------------------------------------------------
(* EDA_EDGAR_XBRL_METRICS.py: the list it groups by and content_dfs.       *)

METRICS_top_25_metrics ==
    << Metric("RevenueFromContractWithCustomerExcludingAssessedTax", "USD"),
       Metric("CostOfGoodsAndServicesSold", "USD"),
       Metric("ResearchAndDevelopmentExpense", "USD"),
       Metric("NetIncomeLoss", "USD"),
       Metric("OperatingIncomeLoss", "USD"),
       Metric("GrossProfit", "USD"),
       Metric("Assets", "USD"),
       Metric("AssetsCurrent", "USD"),
       Metric("LiabilitiesCurrent", "USD"),
       Metric("StockholdersEquity", "USD"),
       Metric("CashCashEquivalentsRestrictedCashAndRestrictedCashEquivalents", "USD"),
       Metric("CashAndCashEquivalentsAtCarryingValue", "USD"),
       Metric("CashCashEquivalentsRestrictedCashAndRestrictedCashEquivalentsPeriodIncreaseDecreaseIncludingExchangeRateEffect", "USD"),
       Metric("NetCashProvidedByUsedInOperatingActivities", "USD"),
       Metric("NetCashProvidedByUsedInInvestingActivities", "USD"),
       Metric("NetCashProvidedByUsedInFinancingActivities", "USD"),
       Metric("InterestExpense", "USD"),
       Metric("LongTermDebt", "USD"),
       Metric("DebtInstrumentCarryingAmount", "USD"),
       Metric("AllocatedShareBasedCompensationExpense", "USD") >>

\* a DataFrame of rows is the set of its (index label, row) pairs
ContentFrame(rows, metric) ==
    {<<p, rows[p].row>> : p \in {q \in 1..Len(rows) :
                                    rows[q].row["content"] = PyStr(metric)}}

\* lines 64-80: df.sort_values(by='content') needs the column `content`,
\* which an empty `data` does not give
GroupByMetric(rows) ==
    IF rows = <<>> THEN Raise("KeyError")
    ELSE Return([m \in {METRICS_top_25_metrics[i] :
                           i \in 1..Len(METRICS_top_25_metrics)} |->
                    ContentFrame(rows, m)])

---------------------------------------------------------------------------
(* The pipeline specification: the cached file and the flags are drawn,    *)
(* then the parser, the composition and the downstream script run on it.   *)

MaxItems == 2

UnitsOf(unit, facts) ==
    [type |-> "dict", value |-> [units |-> <<Entry(<<unit>>, PyList(facts))>>]]

\* the records Fetch_EDGAR_XBRL writes ({"namespace", "facts"}), and records
\* that lack one of the two keys
UsGaapItem ==
    [namespace |-> UsGaap,
     facts |-> << Entry(<<"NetIncomeLoss">>,
                        UnitsOf("USD", <<FactFriday, FactNotADate>>)),
                  Entry(<<"ResearchAndDevelopmentExpense">>,
                        UnitsOf("USD", <<FactSaturday>>)) >>]
UsGaapNetIncomeOnlyItem ==
    [namespace |-> UsGaap,
     facts |-> << Entry(<<"NetIncomeLoss">>, UnitsOf("USD", <<FactFriday>>)) >>]
UsGaapNullFiledItem ==
    [namespace |-> UsGaap,
     facts |-> << Entry(<<"Assets">>, UnitsOf("USD", <<FactNullFiled>>)) >>]
DeiItem ==
    [namespace |-> Dei,
     facts |-> << Entry(<<"EntityRegistrantName">>, PyStr(<<"text">>)),
                  Entry(<<"EntityCommonStockSharesOutstanding">>,
                        UnitsOf("shares", <<FactFriday>>)) >>]
SrtNoFactsItem == [namespace |-> Srt]
\* a fact with a value that is itself a dict holding `filed`
FactNested ==
    [val |-> PyInt(100), filed |-> Filed_2024_02_02,
     frame |-> [type |-> "dict", value |-> [filed |-> Filed_2024_02_03]]]
\* "units": {"USD": null} under one fact type
UsGaapNullUnitsItem ==
    [namespace |-> UsGaap,
     facts |-> << Entry(<<"Assets">>,
                        [type |-> "dict",
                         value |-> [units |-> <<Entry(<<"USD">>, PyNone)>>]]),
                  Entry(<<"GrossProfit">>, UnitsOf("USD", <<FactFriday>>)) >>]
\* one unit of a fact type holds an element that is not a dict
UsGaapMixedUnitsItem ==
    [namespace |-> UsGaap,
     facts |-> << Entry(<<"Assets">>,
                        [type |-> "dict",
                         value |-> [units |->
                            << Entry(<<"USD">>, PyList(<<FactFriday>>)),
                               Entry(<<"EUR">>, PyList(<<PyStr(<<"text">>)>>)),
                               Entry(<<"GBP">>, PyList(<<FactSaturday>>)) >>]]),
                  Entry(<<"GrossProfit">>, UnitsOf("USD", <<FactNested>>)) >>]
NoNamespaceItem ==
    [facts |-> << Entry(<<"Assets">>, UnitsOf("USD", <<FactFriday>>)) >>]

ItemKinds == {UsGaapItem, UsGaapNetIncomeOnlyItem, UsGaapNullFiledItem,
              DeiItem, SrtNoFactsItem, NoNamespaceItem,
              UsGaapNullUnitsItem, UsGaapMixedUnitsItem}

\* json.load gives a list of records, an object of records, or a scalar
JsonFiles ==
    {[kind |-> "missing"], [kind |-> "undecodable"], [kind |-> "scalar"]}
    \cup {[kind |-> "list", items |-> l] :
             l \in UNION {[1..n -> ItemKinds] : n \in 0..MaxItems}}
    \cup {[kind |-> "dict", items |-> <<Entry(i["namespace"], i)>>] :
             i \in {UsGaapItem, DeiItem, SrtNoFactsItem}}

InitPipeline ==
    /\ json_file \in JsonFiles
    /\ print_gaap_keys \in BOOLEAN
    /\ print_metrics \in BOOLEAN
    /\ all_dict = Idle
    /\ pipeline_data = Idle
    /\ content_dfs = Idle
    /\ namespace_result = Idle
    /\ xbrl_data = <<>>
    /\ metrics_list = <<>>
    /\ metrics_data = <<>>
    /\ outcomes = <<>>
    /\ xbrl_data_before = <<>>
    /\ metrics_list_before = <<>>
    /\ cal_input = IdleDate
    /\ CalIdle
    /\ FetchIdle
    /\ MonthsIdle

\* Parse_EDGAR_XBRL.py run as a script, line 99
ParseAllCall ==
    /\ all_dict = Idle
    /\ all_dict' = parse_EDGAR_XBRL_all(json_file)
    /\ UNCHANGED <<json_file, print_gaap_keys, pipeline_data, content_dfs,
                   namespace_result, calvars, exvars, fetchvars, monthvars>>

\* EDA_EDGAR_XBRL.py run as a script, lines 173-174
ExtractFromEdgarCall ==
    /\ pipeline_data = Idle
    /\ pipeline_data' =
           extract_metrics_from_EDGAR_XBRL(json_file, print_gaap_keys, print_metrics)
    /\ UNCHANGED <<json_file, print_gaap_keys, all_dict, content_dfs,
                   namespace_result, calvars, exvars, fetchvars, monthvars>>

\* EDA_EDGAR_XBRL_METRICS.py, lines 63-80
MetricsScript ==
    /\ pipeline_data = Idle
    /\ \E d \in {extract_metrics_from_EDGAR_XBRL(json_file, print_gaap_keys,
                                                 print_metrics)} :
          /\ pipeline_data' = d
          /\ content_dfs' = IF d.status = "returned" THEN GroupByMetric(d.value)
                            ELSE d
    /\ UNCHANGED <<json_file, print_gaap_keys, all_dict, namespace_result,
                   calvars, exvars, fetchvars, monthvars>>

\* parse_namespace(df, namespace) on the DataFrame of the cached file
ParseNamespaceCall ==
    /\ namespace_result = Idle
    /\ make_df(json_file).status = "returned"
    /\ make_df(json_file).value.type = "DataFrame"
    /\ \E n \in 1..Len(ParsedNamespaces) :
           \E r \in {parse_namespace(make_df(json_file).value, ParsedNamespaces[n])} :
              namespace_result' = [status    |-> r.status,
                                   value     |-> r.value,
                                   namespace |-> ParsedNamespaces[n]]
    /\ UNCHANGED <<json_file, print_gaap_keys, all_dict, pipeline_data,
                   content_dfs, calvars, exvars, fetchvars, monthvars>>

NextPipeline ==
    ParseAllCall \/ ExtractFromEdgarCall \/ MetricsScript \/ ParseNamespaceCall

SpecPipeline == InitPipeline /\ [][NextPipeline]_vars

---------------------------------------------------------------------------
(* Fetch_EDGAR.py and Fetch_EDGAR_XBRL.py: requests, rate limiting, the    *)
(* download of filings and the cache file written by get_EDGAR_XBRL.       *)

Url(kind, id) == [kind |-> kind, id |-> id]

\* what a run does to the outside world, in order
RequestEvent(url, ok) == [op |-> "request", url |-> url, ok |-> ok]
SleepEvent(delay)     == [op |-> "sleep", delay |-> delay]
WriteEvent(file)      == [op |-> "write", file |-> file]

\* requests.get + raise_for_status: the response, or None after a
\* RequestException
make_api_request(url, bad) ==
    IF url \in bad THEN PyNone ELSE [type |-> "Response", url |-> url]

\* delay = 1 / requests_per_second, as the fraction num / den of a second
Delay(r) == [num |-> 1, den |-> r]

SleepAfter_OnlyOnSuccess(response, delay) ==
    IF response.type = "NoneType" THEN <<>> ELSE <<SleepEvent(delay)>>
\* time.sleep(delay) at the end of the loop body, whatever the response
SleepAfter(response, delay) == <<SleepEvent(delay)>>

SubmissionsUrl == Url("submissions", 0)

\* fetch_XBRL: the XBRL filings of the answer, or an empty DataFrame
fetch_XBRL(answer, bad) ==
    IF make_api_request(SubmissionsUrl, bad).type = "NoneType"
      THEN <<>>
      ELSE SelectSeq(answer, LAMBDA row : row.isXBRL = 1)

HeadLimit == 20

DfHead_All(df) == df
\* form_filings.head(20)
DfHead(df) == SubSeq(df, 1, IF Len(df) < HeadLimit THEN Len(df) ELSE HeadLimit)

FilingUrl(row) == Url("filing", row.accessionNumber)

\* process_filing: one request, and one file when it succeeded
process_filing(row, bad) ==
    LET response == make_api_request(FilingUrl(row), bad)
    IN  <<RequestEvent(FilingUrl(row), response.type # "NoneType")>>
            \o (IF response.type # "NoneType"
                  THEN <<WriteEvent(row.primaryDocument)>> ELSE <<>>)

CompanyFactsUrl == Url("companyfacts", 0)

PyFloat(m, d) == [type |-> "float", mantissa |-> m, decimals |-> d]

RECURSIVE Pow10(_)
Pow10(n) == IF n = 0 THEN 1 ELSE 10 * Pow10(n - 1)

\* DataFrame.to_json encodes floats with double_precision = 10 decimals
DoublePrecision == 10

ToJsonValue(v) ==
    IF v.type = "float" /\ v.decimals > DoublePrecision
      THEN PyFloat((v.mantissa + 5 * Pow10(v.decimals - DoublePrecision - 1))
                       \div Pow10(v.decimals - DoublePrecision),
                   DoublePrecision)
      ELSE v

\* the facts of a namespace as the file holds them: every value of every
\* fact of every unit list encoded, the other fields of a fact type too
ToJsonFacts(facts) ==
    [f \in 1..Len(facts) |->
        Entry(facts[f].key,
              [type  |-> "dict",
               value |-> [k \in DOMAIN facts[f].value.value |->
                   IF k = "units"
                     THEN LET units == facts[f].value.value[k]
                          IN  [u \in 1..Len(units) |->
                                 Entry(units[u].key,
                                       PyList([n \in 1..Len(units[u].value.value) |->
                                           [j \in DOMAIN units[u].value.value[n] |->
                                               ToJsonValue(units[u].value.value[n][j])]]))]
                     ELSE ToJsonValue(facts[f].value.value[k])]])]

\* the order in which get_EDGAR_XBRL looks the namespaces up
FetchedNamespaces == <<Dei, UsGaap, Invest, Srt>>

RECURSIVE FactsDict(_, _, _)
FactsDict(facts_dict, company_xbrl, n) ==
    IF n > Len(FetchedNamespaces) THEN facts_dict
    ELSE FactsDict(IF FetchedNamespaces[n] \in OdKeys(company_xbrl)
                     THEN OdSet(facts_dict, FetchedNamespaces[n],
                                OdGet(company_xbrl, FetchedNamespaces[n]))
                     ELSE facts_dict,
                   company_xbrl, n + 1)

\* the content of the file get_EDGAR_XBRL writes, as json.load reads it back
WrittenFile(answer) ==
    LET facts_dict == FactsDict(<<>>, answer.facts, 1)
    IN  [kind  |-> "list",
         items |-> [i \in 1..Len(facts_dict) |->
                       [namespace |-> facts_dict[i].key,
                        facts     |-> ToJsonFacts(facts_dict[i].value)]]]

\* get_EDGAR_XBRL: the events, and the cache file afterwards
get_EDGAR_XBRL(answer, bad, old_file) ==
    LET response == make_api_request(CompanyFactsUrl, bad)
    IN  IF response.type = "NoneType"
          THEN [events |-> <<RequestEvent(CompanyFactsUrl, FALSE)>>,
                file   |-> old_file]
          ELSE [events |-> <<RequestEvent(CompanyFactsUrl, TRUE),
                             WriteEvent("EDGAR_XBRL_JSON")>>,
                file   |-> WrittenFile(answer)]

---------------------------------------------------------------------------
(* The fetch specification: one of the three entry points is run on        *)
(* inputs drawn for it.                                                    *)

MaxUrls == 3
MaxFilings == 22
MaxFailures == 1
MaxResponseNamespaces == 2

UrlSet == {Url("url", 1), Url("url", 2)}

\* the answer lists every filing as XBRL, or every second one
RecentFilings(n, every) ==
    [i \in 1..n |-> [accessionNumber |-> i,
                     primaryDocument |-> i,
                     isXBRL          |-> IF i % every = 0 THEN 1 ELSE 0]]

RECURSIVE FailSets(_, _)
FailSets(U, k) ==
    IF k = 0 THEN {{}}
    ELSE FailSets(U, k - 1)
           \cup {S \cup {u} : S \in FailSets(U, k - 1), u \in U}

ApiDetails(unit, facts) ==
    [type  |-> "dict",
     value |-> [label |-> PyStr(<<"label">>),
                units |-> <<Entry(<<unit>>, PyList(facts))>>]]

ApiDei ==
    Entry(Dei, << Entry(<<"EntityCommonStockSharesOutstanding">>,
                        ApiDetails("shares", <<FactFriday>>)) >>)
ApiUsGaap ==
    Entry(UsGaap, << Entry(<<"NetIncomeLoss">>,
                           ApiDetails("USD", <<FactFriday, FactSaturday>>)),
                     Entry(<<"EarningsPerShareBasic">>,
                           ApiDetails("USD/shares",
                                      <<[val   |-> PyFloat(5, 2),
                                         filed |-> Filed_2024_02_02]>>)) >>)
ApiUsGaapRate ==
    Entry(UsGaap, << Entry(<<"EffectiveIncomeTaxRateContinuingOperations">>,
                           ApiDetails("pure",
                                      <<[val   |-> PyFloat(1234567891, 11),
                                         filed |-> Filed_2024_02_02]>>)) >>)
ApiInvest ==
    Entry(Invest, << Entry(<<"InvestmentOwnedBalanceShares">>,
                           ApiDetails("shares", <<FactFriday>>)) >>)
ApiSrt ==
    Entry(Srt, << Entry(<<"StockRepurchaseProgramAuthorizedAmount1">>,
                        ApiDetails("USD", <<FactSaturday>>)) >>)
ApiIfrs ==
    Entry(<<"ifrs-full">>, << Entry(<<"Assets">>,
                                    ApiDetails("USD", <<FactFriday>>)) >>)

\* the companyfacts answers: up to MaxResponseNamespaces namespaces
ApiResponses ==
    {[facts |-> l] :
        l \in {m \in UNION {[1..n -> {ApiDei, ApiUsGaap, ApiUsGaapRate,
                                         ApiInvest, ApiSrt, ApiIfrs}] :
                               n \in 0..MaxResponseNamespaces} :
                  \A a, b \in 1..Len(m) : a # b => m[a].key # m[b].key}}

InitFetch ==
    /\ \/ /\ script = "rate_limited_api_calls"
          /\ urls \in UNION {[1..n -> UrlSet] : n \in 0..MaxUrls}
          /\ requests_per_second \in {1, 2}
          /\ failing \in SUBSET UrlSet
          /\ recent = <<>>
          /\ api_response = [facts |-> <<>>]
       \/ /\ script = "main"
          /\ urls = <<>>
          /\ requests_per_second = 1
          /\ \E n \in 0..MaxFilings, every \in {1, 2} :
                /\ recent = RecentFilings(n, every)
                /\ failing \in FailSets({SubmissionsUrl}
                                          \cup {FilingUrl(recent[i]) : i \in 1..n},
                                        MaxFailures)
          /\ api_response = [facts |-> <<>>]
       \/ /\ script = "get_EDGAR_XBRL"
          /\ urls = <<>>
          /\ requests_per_second = 1
          /\ failing \in SUBSET {CompanyFactsUrl}
          /\ recent = <<>>
          /\ api_response \in ApiResponses
    /\ form_filings = <<>>
    /\ fetch_index = 1
    /\ fetch_pc = "start"
    /\ events = <<>>
    /\ PipeIdle
    /\ ExIdle
    /\ cal_input = IdleDate
    /\ CalIdle
    /\ MonthsIdle

\* rate_limited_api_calls: delay = 1 / requests_per_second, loop entry
RL_Enter ==
    /\ script = "rate_limited_api_calls"
    /\ fetch_pc = "start"
    /\ fetch_pc' = "loop"
    /\ fetch_index' = 1
    /\ UNCHANGED <<script, api_response, urls, requests_per_second, failing,
                   recent, form_filings, events,
                   calvars, exvars, pipevars, monthvars>>

\* one execution of the loop body
RL_Body ==
    /\ script = "rate_limited_api_calls"
    /\ fetch_pc = "loop"
    /\ fetch_index <= Len(urls)
    /\ LET url      == urls[fetch_index]
           response == make_api_request(url, failing)
       IN  events' = events
               \o <<RequestEvent(url, response.type # "NoneType")>>
               \o SleepAfter(response, Delay(requests_per_second))
    /\ fetch_index' = fetch_index + 1
    /\ UNCHANGED <<script, api_response, urls, requests_per_second, failing,
                   recent, form_filings, fetch_pc,
                   calvars, exvars, pipevars, monthvars>>

RL_Return ==
    /\ script = "rate_limited_api_calls"
    /\ fetch_pc = "loop"
    /\ fetch_index > Len(urls)
    /\ fetch_pc' = "done"
    /\ UNCHANGED <<script, api_response, urls, requests_per_second, failing,
                   recent, form_filings, fetch_index, events,
                   calvars, exvars, pipevars, monthvars>>

\* Fetch_EDGAR.main, lines 166-170
Main_FetchXBRL ==
    /\ script = "main"
    /\ fetch_pc = "start"
    /\ events' = <<RequestEvent(SubmissionsUrl, SubmissionsUrl \notin failing)>>
    /\ form_filings' = fetch_XBRL(recent, failing)
    /\ fetch_index' = 1
    /\ fetch_pc' = "loop"
    /\ UNCHANGED <<script, api_response, urls, requests_per_second, failing,
                   recent, calvars, exvars, pipevars, monthvars>>

\* Fetch_EDGAR.main, lines 172-173: one row of form_filings.head(20)
Main_ProcessFiling ==
    /\ script = "main"
    /\ fetch_pc = "loop"
    /\ fetch_index <= Len(DfHead(form_filings))
    /\ events' = events \o process_filing(DfHead(form_filings)[fetch_index], failing)
    /\ fetch_index' = fetch_index + 1
    /\ UNCHANGED <<script, api_response, urls, requests_per_second, failing,
                   recent, form_filings, fetch_pc,
                   calvars, exvars, pipevars, monthvars>>

Main_Return ==
    /\ script = "main"
    /\ fetch_pc = "loop"
    /\ fetch_index > Len(DfHead(form_filings))
    /\ fetch_pc' = "done"
    /\ UNCHANGED <<script, api_response, urls, requests_per_second, failing,
                   recent, form_filings, fetch_index, events,
                   calvars, exvars, pipevars, monthvars>>

\* Fetch_EDGAR_XBRL.py run as a script, lines 131-133
GetEdgarXbrlCall ==
    /\ script = "get_EDGAR_XBRL"
    /\ fetch_pc = "start"
    /\ \E done \in {get_EDGAR_XBRL(api_response, failing, json_file)} :
          /\ events' = done.events
          /\ json_file' = done.file
    /\ fetch_pc' = "fetched"
    /\ UNCHANGED <<script, api_response, urls, requests_per_second, failing,
                   recent, form_filings, fetch_index,
                   print_gaap_keys, all_dict, pipeline_data, content_dfs,
                   namespace_result, calvars, exvars, monthvars>>

\* parse_EDGAR_XBRL_all on the file the fetch left
ParseFetchedCall ==
    /\ script = "get_EDGAR_XBRL"
    /\ fetch_pc = "fetched"
    /\ all_dict' = parse_EDGAR_XBRL_all(json_file)
    /\ fetch_pc' = "done"
    /\ UNCHANGED <<script, api_response, urls, requests_per_second, failing,
                   recent, form_filings, fetch_index, events,
                   json_file, print_gaap_keys, pipeline_data, content_dfs,
                   namespace_result, calvars, exvars, monthvars>>

NextFetch ==
    \/ RL_Enter \/ RL_Body \/ RL_Return
    \/ Main_FetchXBRL \/ Main_ProcessFiling \/ Main_Return
    \/ GetEdgarXbrlCall \/ ParseFetchedCall

SpecFetch == InitFetch /\ [][NextFetch]_vars

---------------------------------------------------------------------------
(* Fetch_OHLCV.py: generate_months, step by step through its while loop.   *)

\* datetime.MINYEAR and datetime.MAXYEAR: datetime(year, 1, 1) raises
\* ValueError for a year outside them
MINYEAR == 1
MAXYEAR == 9999

\* the decimal digits of a positive integer, as characters
RECURSIVE Decimal(_)
Decimal(n) ==
    IF n < 10 THEN <<DigitChars[n + 1]>>
    ELSE Append(Decimal(n \div 10), DigitChars[(n % 10) + 1])

\* strftime('%Y-%m'): the year as glibc prints it, without padding, and the
\* month on two digits
StrftimeYearMonth(dt) ==
    PyStr(Decimal(dt.year) \o <<"-">>
            \o <<DigitChars[(dt.month \div 10) + 1], DigitChars[(dt.month % 10) + 1]>>)

\* current_date += timedelta(days=32); current_date = current_date.replace(day=1)
NextMonthStart(dt) ==
    LET later == AddDays(dt, 32)
    IN  Date(later.year, later.month, 1)

\* current_date < end_date
DateBefore(a, b) == ToOrdinal(a) < ToOrdinal(b)

MaxYearOffset == 7
FirstYear == 2019

InitMonths ==
    /\ start_year \in {MINYEAR, 999, MAXYEAR - 1, MAXYEAR}
                         \cup (FirstYear..(FirstYear + MaxYearOffset))
    /\ current_date = IdleDate
    /\ months = <<>>
    /\ gm_pc = "start"
    /\ PipeIdle
    /\ ExIdle
    /\ FetchIdle
    /\ cal_input = IdleDate
    /\ CalIdle

\* lines 79-82: start_date, end_date, months = [], current_date = start_date
GM_Enter ==
    /\ gm_pc = "start"
    /\ IF start_year < MINYEAR \/ start_year + 1 > MAXYEAR
         THEN /\ gm_pc' = "raised"
              /\ UNCHANGED <<current_date, months>>
         ELSE /\ gm_pc' = "loop"
              /\ current_date' = Date(start_year, 1, 1)
              /\ months' = <<>>
    /\ UNCHANGED <<start_year, calvars, exvars, pipevars, fetchvars>>

\* lines 83-86: one execution of the loop body
GM_Body ==
    /\ gm_pc = "loop"
    /\ DateBefore(current_date, Date(start_year + 1, 1, 1))
    /\ months' = Append(months, StrftimeYearMonth(current_date))
    /\ current_date' = NextMonthStart(current_date)
    /\ UNCHANGED <<start_year, gm_pc, calvars, exvars, pipevars, fetchvars>>

\* line 87
GM_Return ==
    /\ gm_pc = "loop"
    /\ ~DateBefore(current_date, Date(start_year + 1, 1, 1))
    /\ gm_pc' = "returned"
    /\ UNCHANGED <<start_year, current_date, months, calvars, exvars, pipevars,
                   fetchvars>>

NextMonths == GM_Enter \/ GM_Body \/ GM_Return

SpecMonths == InitMonths /\ [][NextMonths]_vars

---------------------------------------------------------------------------
(* Claims about the calendar functions, checked under SpecCalendar.        *)

IsWeekdayDate(dt) == Weekday(dt) \in 0..4
DaysBetween(a, b) == ToOrdinal(b) - ToOrdinal(a)

\* C3: for every date d that falls on Monday..Friday, shift_to_market_open(d)
\* returns the timestamp with date part d and time 09:30: the date is never
\* advanced for a weekday.
C3_WeekdaySameDay ==
    (smo_pc = "returned" /\ IsWeekdayDate(cal_input))
        => /\ DatePart(market_open_datetime) = cal_input
           /\ market_open_datetime.hour = 9
           /\ market_open_datetime.minute = 30

C3_Witness ==
    /\ smo_pc = "returned"
    /\ Weekday(cal_input) = 4
    /\ DatePart(market_open_datetime) = cal_input

\* C4: for every date d that falls on Saturday or Sunday,
\* shift_to_market_open(d) returns 09:30 on the first Monday after d, which is
\* d+2 for a Saturday and d+1 for a Sunday, that is d + (7 - weekday(d)).
C4_WeekendToMonday ==
    (smo_pc = "returned" /\ Weekday(cal_input) \in {5, 6})
        => LET r == DatePart(market_open_datetime)
           IN  /\ r = AddDays(cal_input, IF Weekday(cal_input) = 5 THEN 2 ELSE 1)
               /\ DaysBetween(cal_input, r) = 7 - Weekday(cal_input)
               /\ Weekday(r) = 0
               /\ market_open_datetime.hour = 9
               /\ market_open_datetime.minute = 30

C4_Witness ==
    /\ smo_pc = "returned"
    /\ Weekday(cal_input) = 5
    /\ DaysBetween(cal_input, DatePart(market_open_datetime)) = 2

C15_EarliestWeekdayFromD ==
    smo_pc = "returned"
        => LET r    == DatePart(market_open_datetime)
               diff == DaysBetween(cal_input, r)
           IN  /\ market_open_datetime.hour = 9
               /\ market_open_datetime.minute = 30
               /\ IsWeekdayDate(r)
               /\ diff \in 0..2
               /\ r = AddDays(cal_input, diff)
               /\ \A k \in 0..(diff - 1) : ~IsWeekdayDate(AddDays(cal_input, k))

C15_Witness ==
    /\ smo_pc = "returned"
    /\ Weekday(cal_input) = 6
    /\ DaysBetween(cal_input, DatePart(market_open_datetime)) = 1
    /\ market_open_datetime.hour = 9

---------------------------------------------------------------------------
(* Claims about extract_metrics, checked under Spec.                       *)
(*                                                                         *)
(* The formulas speak about every finished call: outcomes[n] is the n-th   *)
(* call's outcome, its value the list returned, each element a row with    *)
(* the loop positions <<i, j, k>> it was appended at.  The arguments are   *)
(* read from xbrl_data_before and metrics_list_before, the argument        *)
(* objects as the call found them.                                         *)

Calls == 1..Len(outcomes)
Returned(n) == outcomes[n].status = "returned"
Items(n) == outcomes[n].value
RowsOf(n) == [p \in 1..Len(Items(n)) |-> Items(n)[p].row]

\* metric i is a key of namespace j and has a k-th fact
IsTriple(i, j, k) ==
    /\ i \in 1..Len(metrics_list_before)
    /\ j \in 1..Len(xbrl_data_before)
    /\ metrics_list_before[i] \in DOMAIN xbrl_data_before[j].value
    /\ k \in 1..Len(xbrl_data_before[j].value[metrics_list_before[i]])

FactOf(i, j, k) == xbrl_data_before[j].value[metrics_list_before[i]][k]

\* the fact has a `filed` field parseable as YYYY-MM-DD
WellFormed(fact) ==
    /\ "filed" \in DOMAIN fact
    /\ strptime(fact["filed"]).outcome = "ok"

Positions == (1..Len(metrics_list_before)) \X (1..Len(xbrl_data_before)) \X (1..(MaxFacts + 1))

ValidTriples ==
    {t \in Positions : IsTriple(t[1], t[2], t[3]) /\ WellFormed(FactOf(t[1], t[2], t[3]))}

\* the row was built from fact k of metric i in namespace j
RowIsOf(row, i, j, k) ==
    /\ {"content", "namespace", "market_day", "filed"} \subseteq DOMAIN row
    /\ row["content"] = PyStr(metrics_list_before[i])
    /\ row["namespace"] = PyStr(xbrl_data_before[j].key)
    /\ row["filed"] = FactOf(i, j, k)["filed"]

\* C1: extract_metrics returns exactly one row for each (metric, namespace,
\* fact) triple with the metric in metrics_list, the namespace a key of
\* xbrl_data, the metric a key of that namespace and the fact's `filed`
\* parseable as YYYY-MM-DD, and it returns no other rows.
C1_ExactlyTheValidTriples ==
    \A n \in Calls : Returned(n) =>
        /\ \A t \in ValidTriples :
              Cardinality({p \in 1..Len(Items(n)) :
                  /\ Items(n)[p].origin = t
                  /\ RowIsOf(Items(n)[p].row, t[1], t[2], t[3])}) = 1
        /\ \A p \in 1..Len(Items(n)) : Items(n)[p].origin \in ValidTriples

\* C2: for every fact that lacks `filed` or whose `filed` cannot be parsed as
\* YYYY-MM-DD the call emits no row, raises no exception and continues, so
\* that every well-formed fact still produces its row.
C2_MalformedSkippedNeverRaises ==
    \A n \in Calls :
        /\ Returned(n)
        /\ \A t \in Positions : IsTriple(t[1], t[2], t[3]) =>
              LET hits == {p \in 1..Len(Items(n)) : Items(n)[p].origin = t}
              IN  IF WellFormed(FactOf(t[1], t[2], t[3]))
                    THEN hits # {}
                    ELSE hits = {}

LexLess(a, b) ==
    \/ a[1] < b[1]
    \/ a[1] = b[1] /\ a[2] < b[2]
    \/ a[1] = b[1] /\ a[2] = b[2] /\ a[3] < b[3]

\* C7: the rows returned are ordered by the position of the metric in
\* metrics_list first, then by the position of the namespace in xbrl_data,
\* then by the position of the fact in its list; they are never reordered
\* by date.
C7_LoopOrder ==
    \A n \in Calls : Returned(n) =>
        /\ \A p \in 1..Len(Items(n)) :
              LET o == Items(n)[p].origin
              IN  /\ o[1] \in 1..Len(metrics_list_before)
                  /\ Items(n)[p].row["content"] = PyStr(metrics_list_before[o[1]])
                  /\ o[3] > 0 => /\ IsTriple(o[1], o[2], o[3])
                                 /\ RowIsOf(Items(n)[p].row, o[1], o[2], o[3])
        /\ \A p, q \in 1..Len(Items(n)) :
              p < q => LexLess(Items(n)[p].origin, Items(n)[q].origin)

\* two rows of one fact list, the earlier one with the later market day
C7_Witness ==
    /\ Len(outcomes) >= 1
    /\ Returned(1)
    /\ Len(Items(1)) = 2
    /\ Items(1)[1].origin[3] = 1
    /\ Items(1)[2].origin[3] = 2
    /\ Items(1)[1].row["market_day"].day = 5
    /\ Items(1)[2].row["market_day"].day = 2

\* C8: extract_metrics leaves its input unchanged: after the call xbrl_data
\* (namespace keys, metric keys, fact lists, every fact's keys and values) and
\* metrics_list equal what they were before it; the added keys appear only
\* in the returned copies.
C8_InputUnchanged ==
    /\ xbrl_data = xbrl_data_before
    /\ metrics_list = metrics_list_before
    /\ \A j \in 1..Len(xbrl_data) : \A m \in DOMAIN xbrl_data[j].value :
          \A k \in 1..Len(xbrl_data[j].value[m]) :
             {"market_day", "namespace"} \cap DOMAIN xbrl_data[j].value[m][k] = {}

\* a call has returned a row that carries the added keys
C8_Witness ==
    /\ Len(outcomes) >= 1
    /\ Returned(1)
    /\ Len(Items(1)) >= 1
    /\ {"market_day", "namespace", "content"} \subseteq DOMAIN Items(1)[1].row
    /\ xbrl_data # <<>>

\* C9: two calls in a row with the same xbrl_data and metrics_list yield
\* structurally identical row sequences: same length, same rows, same order.
C9_SecondCallSame ==
    Len(outcomes) = 2 =>
        /\ outcomes[1].status = outcomes[2].status
        /\ RowsOf(1) = RowsOf(2)

C9_Witness ==
    /\ Len(outcomes) = 2
    /\ Returned(1)
    /\ Returned(2)
    /\ Len(Items(2)) = 2

\* C10: every row returned carries every key of the fact it was built from
\* with the fact's original value, and in addition the keys market_day,
\* namespace and content; this holds for every row of the output and for
\* facts with any set of keys.
C10_RowCarriesFactAndAddedKeys ==
    \A n \in Calls : Returned(n) =>
        \A p \in 1..Len(Items(n)) :
            LET row == Items(n)[p].row
                o   == Items(n)[p].origin
            IN  /\ {"market_day", "namespace", "content"} \subseteq DOMAIN row
                /\ o[3] > 0 =>
                      \A key \in DOMAIN FactOf(o[1], o[2], o[3]) :
                          /\ key \in DOMAIN row
                          /\ row[key] = FactOf(o[1], o[2], o[3])[key]

\* C11: in every output, each row's content is an element of metrics_list,
\* and each row that has a `filed` field has a non-null market_day equal to
\* shift_to_market_open of the date parsed from that row's own `filed`:
\* filed 2024-02-02, a Friday, gives 2024-02-02 09:30; filed 2024-02-03, a
\* Saturday, gives 2024-02-05 09:30.
C11_ContentAndMarketDay ==
    \A n \in Calls : Returned(n) =>
        \A p \in 1..Len(Items(n)) :
            LET row == Items(n)[p].row
            IN  /\ "content" \in DOMAIN row
                /\ \E i \in 1..Len(metrics_list_before) :
                      row["content"] = PyStr(metrics_list_before[i])
                /\ "filed" \in DOMAIN row =>
                      /\ "market_day" \in DOMAIN row
                      /\ row["market_day"] # PyNone
                      /\ strptime(row["filed"]).outcome = "ok"
                      /\ row["market_day"] =
                            shift_to_market_open(strptime(row["filed"]).date)
                      /\ row["filed"] = Filed_2024_02_02 =>
                            row["market_day"] = Combine(Date(2024, 2, 2), 9, 30)
                      /\ row["filed"] = Filed_2024_02_03 =>
                            row["market_day"] = Combine(Date(2024, 2, 5), 9, 30)

\* a Friday row and a Saturday row in one output
C11_Witness ==
    /\ Len(outcomes) >= 1
    /\ Returned(1)
    /\ \E p, q \in 1..Len(Items(1)) :
          /\ Items(1)[p].row["content"] = PyStr(NetIncomeLoss)
          /\ "filed" \in DOMAIN Items(1)[p].row
          /\ Items(1)[p].row["filed"] = Filed_2024_02_02
          /\ "filed" \in DOMAIN Items(1)[q].row
          /\ Items(1)[q].row["filed"] = Filed_2024_02_03

\* C12: when a requested metric is not a key of xbrl_data[namespace],
\* extract_metrics adds no row to its output for that (metric, namespace)
\* pair.
C12_AbsentMetricAddsNoRow ==
    \A n \in Calls : Returned(n) =>
        \A i \in 1..Len(metrics_list_before), j \in 1..Len(xbrl_data_before) :
            metrics_list_before[i] \notin DOMAIN xbrl_data_before[j].value
                => \A p \in 1..Len(Items(n)) :
                      ~(Items(n)[p].origin[1] = i /\ Items(n)[p].origin[2] = j)

\* C16: the sequence returned does not depend on the diagnostic flags: for
\* the same xbrl_data and metrics_list, any two settings of the flags yield
\* the same rows in the same order.
C16_FlagIndependent ==
    \A n \in Calls : Returned(n) =>
        LET other == extract_metrics(xbrl_data_before, metrics_list_before,
                                     ~print_metrics)
        IN  /\ other.raised = "none"
            /\ RowsOf(n) = [p \in 1..Len(other.metrics_data) |->
                               other.metrics_data[p].row]

\* C18: the number of rows returned equals the sum, over every position i of
\* metrics_list and every namespace n of xbrl_data that contains
\* metrics_list[i], of the number of facts under it with a parseable `filed`;
\* a metric key that occurs k times in metrics_list contributes each of its
\* rows k times.
C18_RowCount ==
    \A n \in Calls : Returned(n) => Len(Items(n)) = Cardinality(ValidTriples)

---------------------------------------------------------------------------
(* Claims about the parser and the composition, checked under              *)
(* SpecPipeline.                                                           *)

\* C14: extract_metrics_from_EDGAR_XBRL(ticker) returns exactly
\* extract_metrics(parse_EDGAR_XBRL_all(ticker), top_25_metrics), adding,
\* removing and reordering no rows, and when the cached JSON file is missing
\* or undecodable it returns the empty sequence without raising.
C14_PureComposition ==
    pipeline_data # Idle =>
        LET parsed == parse_EDGAR_XBRL_all(json_file)
        IN  /\ parsed.status = "returned" =>
                  pipeline_data =
                      ExtractOutcome(extract_metrics(parsed.value, top_25_metrics,
                                                     print_metrics))
            /\ json_file.kind \in {"missing", "undecodable"} =>
                  pipeline_data = Return(<<>>)

\* C17: every metric key the downstream module groups by is an element of
\* the curated list passed to extract_metrics, so that a metric present in
\* the XBRL data with a parseable filing date gets a non-empty entry in
\* content_dfs.
C17_DownstreamKeysAreExtracted ==
    content_dfs.status = "returned" =>
        \A i \in 1..Len(METRICS_top_25_metrics) :
            LET metric == METRICS_top_25_metrics[i]
                parsed == parse_EDGAR_XBRL_all(json_file).value
            IN  /\ \E u \in 1..Len(top_25_metrics) : top_25_metrics[u] = metric
                /\ (\E j \in 1..Len(parsed) :
                       /\ metric \in DOMAIN parsed[j].value
                       /\ \E k \in 1..Len(parsed[j].value[metric]) :
                             WellFormed(parsed[j].value[metric][k]))
                      => content_dfs.value[metric] # {}

\* C20: parse_EDGAR_XBRL_all(ticker) returns either the empty mapping (file
\* missing or not valid JSON) or a mapping with exactly the four keys dei,
\* invest, us-gaap and srt in that order, where a namespace absent from the
\* loaded data maps to an empty mapping; it does not raise.
C20_ParseAllTotal ==
    all_dict # Idle =>
        /\ all_dict.status = "returned"
        /\ IF json_file.kind \in {"missing", "undecodable"}
             THEN all_dict.value = <<>>
             ELSE /\ [n \in 1..Len(all_dict.value) |-> all_dict.value[n].key]
                        = <<Dei, Invest, UsGaap, Srt>>
                  /\ \A n \in 1..Len(all_dict.value) :
                        (\A i \in 1..Len(json_file.items) :
                            LET item == IF json_file.kind = "dict"
                                          THEN json_file.items[i].value
                                          ELSE json_file.items[i]
                            IN  "namespace" \in DOMAIN item =>
                                   item["namespace"] # all_dict.value[n].key)
                        => all_dict.value[n].value = <<>>

\* the facts cell of the row of namespace ns in the cached file's DataFrame
FactsOfNamespace(ns) == OdGet(make_df(json_file).value.rows, ns)["facts"]

\* a fact type with the expected structure: a dict whose units are lists of
\* dicts
HasExpectedStructure(fact_details) ==
    /\ fact_details.type = "dict"
    /\ "units" \in DOMAIN fact_details.value =>
          \A u \in 1..Len(fact_details.value["units"]) :
              LET data == fact_details.value["units"][u].value
              IN  /\ data.type = "list"
                  /\ \A n \in 1..Len(data.value) : IsDict(data.value[n])

\* C21: parse_namespace(df, namespace) returns one entry per (fact_type,
\* unit_type) pair of the namespace's facts, keyed
\* <namespace>_<fact_type>_<unit_type>, whose value is that unit's fact list in
\* its original order with each fact's top-level `filed` still the original
\* string; a fact_type whose details lack the expected structure is skipped
\* without raising and without dropping the other fact types.
C21_OneEntryPerFactTypeAndUnit ==
    (/\ namespace_result # Idle
     /\ namespace_result.namespace \in OdKeys(make_df(json_file).value.rows)
     /\ "facts" \in DOMAIN OdGet(make_df(json_file).value.rows,
                                 namespace_result.namespace))
    => LET ns    == namespace_result.namespace
           facts == FactsOfNamespace(ns)
           pairs == UNION {{<<f, u>> : u \in 1..Len(facts[f].value.value["units"])} :
                              f \in {g \in 1..Len(facts) :
                                        /\ HasExpectedStructure(facts[g].value)
                                        /\ "units" \in DOMAIN facts[g].value.value}}
           KeyOf(pr)  == ns \o <<"_">> \o facts[pr[1]].key \o <<"_">>
                            \o facts[pr[1]].value.value["units"][pr[2]].key
           ListOf(pr) == facts[pr[1]].value.value["units"][pr[2]].value.value
       IN  /\ namespace_result.status = "returned"
           /\ DOMAIN namespace_result.value = {KeyOf(pr) : pr \in pairs}
           /\ \A pr \in pairs :
                 LET got == namespace_result.value[KeyOf(pr)]
                 IN  /\ Len(got) = Len(ListOf(pr))
                     /\ \A n \in 1..Len(got) :
                           /\ DOMAIN got[n] = DOMAIN ListOf(pr)[n]
                           /\ \A k \in DOMAIN got[n] :
                                 ListOf(pr)[n][k].type # "dict"
                                     => got[n][k] = ListOf(pr)[n][k]

\* C22: in the composed pipeline (parse_EDGAR_XBRL_all followed by
\* extract_metrics) every metric key is found in at most one namespace, and
\* every returned row's `content` starts with its own `namespace` followed by
\* an underscore.
C22_ContentPrefixedByNamespace ==
    pipeline_data.status = "returned" =>
        LET parsed == parse_EDGAR_XBRL_all(json_file).value
        IN  /\ \A j1, j2 \in 1..Len(parsed) :
                  j1 # j2 => DOMAIN parsed[j1].value \cap DOMAIN parsed[j2].value = {}
            /\ \A p \in 1..Len(pipeline_data.value) :
                  LET row == pipeline_data.value[p].row
                  IN  /\ "namespace" \in DOMAIN row
                      /\ "content" \in DOMAIN row
                      /\ Len(row["content"].value) > Len(row["namespace"].value)
                      /\ SubSeq(row["content"].value, 1,
                                Len(row["namespace"].value) + 1)
                            = row["namespace"].value \o <<"_">>

---------------------------------------------------------------------------
(* Claims about the fetch scripts, checked under SpecFetch.                *)

\* C23: fetch-then-parse round trip: for every namespace among dei, us-gaap,
\* invest and srt that get_EDGAR_XBRL finds in the API response and writes to
\* the ticker's JSON file, parse_EDGAR_XBRL_all on that file returns under
\* that namespace exactly the fetched facts (one key per fact type and unit,
\* with the same fact lists); a namespace not present in the response maps
\* to an empty mapping.
C23_FetchParseRoundTrip ==
    (script = "get_EDGAR_XBRL" /\ fetch_pc = "done" /\ CompanyFactsUrl \notin failing)
    => /\ all_dict.status = "returned"
       /\ {all_dict.value[n].key : n \in 1..Len(all_dict.value)}
              = {Dei, UsGaap, Invest, Srt}
       /\ \A n \in 1..Len(all_dict.value) :
             LET ns  == all_dict.value[n].key
                 got == all_dict.value[n].value
             IN  IF ns \notin OdKeys(api_response.facts)
                   THEN got = <<>>
                   ELSE LET facts == OdGet(api_response.facts, ns)
                            pairs == UNION {{<<f, u>> :
                                               u \in 1..Len(facts[f].value.value["units"])} :
                                            f \in 1..Len(facts)}
                            KeyOf(pr)  == ns \o <<"_">> \o facts[pr[1]].key \o <<"_">>
                                             \o facts[pr[1]].value.value["units"][pr[2]].key
                            ListOf(pr) == facts[pr[1]].value.value["units"][pr[2]].value.value
                        IN  /\ DOMAIN got = {KeyOf(pr) : pr \in pairs}
                            /\ \A pr \in pairs : got[KeyOf(pr)] = ListOf(pr)

\* C24: requests to the SEC API are rate limited: in the EDGAR fetch scripts
\* (Fetch_EDGAR.main and Fetch_EDGAR_XBRL.get_EDGAR_XBRL) every HTTP request
\* made through make_api_request is separated from the next request by a
\* sleep of 1/requests_per_second.
C24_RequestsSeparatedBySleep ==
    script \in {"main", "get_EDGAR_XBRL"} =>
        \A i, j \in 1..Len(events) :
            (i < j /\ events[i].op = "request" /\ events[j].op = "request")
                => \E k \in (i + 1)..(j - 1) :
                      events[k] = SleepEvent(Delay(requests_per_second))

\* C25: rate_limited_api_calls(urls, r) issues exactly one request per URL in
\* list order, sleeps 1/r after every request (also after a failed one), and
\* a failed request never raises and never prevents the remaining URLs from
\* being requested.  A call that has not returned can always take its next
\* step, and after k loop bodies the events are the first k request/sleep
\* pairs.
C25_OneRequestAndSleepPerUrl ==
    script = "rate_limited_api_calls" =>
        /\ fetch_pc # "done" => ENABLED (RL_Enter \/ RL_Body \/ RL_Return)
        /\ fetch_pc = "done" => fetch_index = Len(urls) + 1
        /\ fetch_pc # "start" =>
              /\ Len(events) = 2 * (fetch_index - 1)
              /\ \A i \in 1..(fetch_index - 1) :
                    /\ events[2 * i - 1]
                          = RequestEvent(urls[i], urls[i] \notin failing)
                    /\ events[2 * i]
                          = [op |-> "sleep",
                             delay |-> [num |-> 1, den |-> requests_per_second]]

\* a failed request followed by a successful one
C25_Witness ==
    /\ script = "rate_limited_api_calls"
    /\ fetch_pc = "done"
    /\ Len(urls) = 3
    /\ urls[1] \in failing
    /\ urls[2] \notin failing
    /\ Len(events) = 6
    /\ events[2].op = "sleep"

\* the XBRL filings of the answer, in its order
XbrlOfAnswer == SelectSeq(recent, LAMBDA row : row.isXBRL = 1)

FilingRequests == SelectSeq(events, LAMBDA e : e.op = "request" /\ e.url.kind = "filing")
FileWrites     == SelectSeq(events, LAMBDA e : e.op = "write")

---------------------------------------------------------------------------
(* Claim about generate_months, checked under SpecMonths.                  *)

\* the string y-mm
YearMonth(y, m) ==
    PyStr(Decimal(y) \o <<"-">>
            \o (IF m < 10 THEN <<"0">> \o Decimal(m) ELSE Decimal(m)))

\* C27: generate_months(y) terminates for every year y and returns exactly
\* the 12 strings y-01, y-02, ..., y-12 in ascending order, each once: the
\* call never raises, its loop body runs at most 12 times and the loop
\* condition holds exactly while fewer than 12 months are listed, and the
\* list returned is the twelve months (32 days after the first of a month,
\* reset to day 1, is the first of the next month).
C27_TwelveMonths ==
    /\ gm_pc # "raised"
    /\ Len(months) <= 12
    /\ gm_pc = "loop" =>
          /\ DateBefore(current_date, Date(start_year + 1, 1, 1))
                <=> Len(months) < 12
          /\ current_date.day = 1
          /\ current_date = IF Len(months) < 12
                              THEN Date(start_year, Len(months) + 1, 1)
                              ELSE Date(start_year + 1, 1, 1)
    /\ gm_pc = "returned" =>
          months = [m \in 1..12 |-> YearMonth(start_year, m)]

=============================================================================
